---------------------------- MODULE Spec2Model ----------------------------
(***************************************************************************)
(* A model of gTunnel's Tunnel (src/common/tunnel.go): one Tunnel          *)
(* instance, its listeners with their accept and dispatch goroutines, its  *)
(* connection table, the ingress control-message loop and Stop().  The     *)
(* peer endpoint is the environment: it delivers control messages on the   *)
(* control stream and observes the ones the Tunnel sends.                  *)
(*                                                                         *)
(* Goroutines interleave at the granularity of the statements that touch   *)
(* shared memory: the Tunnel has no lock, so the loads and stores of       *)
(* connectionCount and of the connections map made by different goroutines *)
(* are separate steps.                                                     *)
(***************************************************************************)
EXTENDS Integers, Sequences, FiniteSets, TLC

\* ---------------------------------------------------------------- bounds
\* AddListener calls that bind successfully.
MaxListeners == 2
\* Client connections the listeners accept, in total.
MaxAccepts == 2
\* Control messages the peer delivers on the control stream.
MaxMsgs == 2
\* Calls of Stop().
MaxStops == 2
\* Calls of RemoveConnection() made by the owner of the Tunnel.
MaxRemoves == 1
\* Events of the environment in one run: listeners bound, client connections
\* accepted, messages delivered by the peer, Stop() and RemoveConnection()
\* calls of the owner.
MaxEvents == 4
\* Connection ids the peer names in its messages: 0..MaxPeerConnId.
MaxPeerConnId == 1

\* ------------------------------------------------------------ input sets
TunnelIds == {"T1"}
Ports == {8080, 8081}
EndpointIds == {"e1", "e2"}
PeerConnIds == 0..MaxPeerConnId

\* The operations of a control message (constants of package common).
TunnelCtrlConnect == "Connect"
TunnelCtrlAck == "Ack"
TunnelCtrlDisconnect == "Disconnect"
\* Any operation value that is none of the three.
TunnelCtrlOther == "Other"

\* A nil pointer / a missing map entry.
Nil == -1

VARIABLES
    id,               \* t.id
    connections,      \* t.connections: connection id -> index into conns
    connectionCount,  \* t.connectionCount
    listeners,        \* t.listeners: one [closes] per bound listener
    Kill,             \* t.Kill: "open" or "closed"
    conns,            \* every Connection object made so far (the heap)
    acceptLoop,       \* per listener: the goroutine of lines 74-83
    dispatchLoop,     \* per listener: the goroutine of lines 84-101
    recvLoop,         \* the goroutine of lines 154-163: "off", "recv", "done"
    ingressLoop,      \* the loop of lines 164-220
    ingressMessages,  \* the channel of line 153: "none", "open", "closed", "nil"
    stop,             \* the Stop() call in progress and the calls made
    sent,             \* messages given to ctrlStream.Send, in order
    handlerCalls,     \* calls made on t.ConnectionHandler: {<<method, connId>>}
    removed,          \* ids deleted by RemoveConnection and not stored since
    recvd,            \* messages the peer has delivered so far
    removes,          \* RemoveConnection() calls made by the owner so far
    panic             \* "none", or why the process died

vars == <<id, connections, connectionCount, listeners, Kill, conns,
          acceptLoop, dispatchLoop, recvLoop, ingressLoop, ingressMessages,
          stop, sent, handlerCalls, removed, recvd, removes, panic>>

\* ------------------------------------------------------- control messages
ControlMessage(op, tid, connId, endpointId, err) ==
    [Operation |-> op, TunnelId |-> tid, ConnectionId |-> connId,
     EndpointId |-> endpointId, ErrorStatus |-> err]

\* Recv() returning a nil message and a nil error.
NilMessage == ControlMessage("nil", "", 0, "", 0)

\* What the peer can deliver: ErrorStatus is read for Ack only.
PeerMessages ==
    { ControlMessage(op, tid, c, "", 0) :
        op \in {TunnelCtrlConnect, TunnelCtrlAck, TunnelCtrlDisconnect, TunnelCtrlOther},
        tid \in TunnelIds, c \in PeerConnIds }
    \cup { ControlMessage(TunnelCtrlAck, tid, c, "", 1) : tid \in TunnelIds, c \in PeerConnIds }
    \cup { NilMessage }

\* ------------------------------------------------------------ Connection
\* A Connection wraps a socket: one accepted on listener l ("accept") or one
\* dialed to the destination ("dial", l = 0).  Id is Go's zero value until
\* AddConnection writes it.
NewConnection(origin, l) ==
    [Id |-> 0, origin |-> origin, listener |-> l,
     stream |-> "none", setStreams |-> 0, starts |-> 0, closes |-> 0]

SetStream(c, s) == [c EXCEPT !.stream = s, !.setStreams = @ + 1]

StartConnection(c) == [c EXCEPT !.starts = @ + 1]

CloseConnection(c) == [c EXCEPT !.closes = @ + 1]

\* ------------------------------------------------------ connection table
GetConnection(table, connID) ==
    IF connID \in DOMAIN table THEN table[connID] ELSE Nil

\* Mutant of RemoveConnection: deletes nothing.
RemoveConnectionKeeps(table, connID) == table

RemoveConnection(table, connID) ==
    [k \in DOMAIN table \ {connID} |-> table[k]]

\* t.connections[key] = c
MapStore(table, key, c) ==
    [k \in DOMAIN table \cup {key} |-> IF k = key THEN c ELSE table[k]]

EmptyTable == [k \in {} |-> Nil]

\* ------------------------------------------------------------- NewTunnel
\* Lines 34-51, followed by SetControlStream (lines 231-233): the control
\* stream is bound before anything else is called on the Tunnel.
Init ==
    /\ id \in TunnelIds
    /\ connections = EmptyTable
    /\ connectionCount = 0
    /\ listeners = << >>
    /\ Kill = "open"
    /\ conns = << >>
    /\ acceptLoop = << >>
    /\ dispatchLoop = << >>
    /\ recvLoop = "off"
    /\ ingressLoop = [pc |-> "off", msg |-> NilMessage, gConn |-> Nil]
    /\ ingressMessages = "none"
    /\ stop = [pc |-> "idle", calls |-> 0]
    /\ sent = << >>
    /\ handlerCalls = {}
    /\ removed = {}
    /\ recvd = 0
    /\ removes = 0
    /\ panic = "none"

Alive == panic = "none"

\* Sockets accepted so far.
Accepted == {i \in DOMAIN conns : conns[i].origin = "accept"}

\* The events of the environment so far, and whether it may add one.
Events == Len(listeners) + Cardinality(Accepted) + recvd + stop.calls + removes

MoreEvents == Events < MaxEvents

\* The process is dead after a panic or a fatal error: nothing runs.
Panic(why) ==
    /\ panic' = why
    /\ UNCHANGED <<id, connections, connectionCount, listeners, Kill,
                   conns, acceptLoop, dispatchLoop, recvLoop, ingressLoop,
                   ingressMessages, stop, sent, handlerCalls, removed,
                   recvd, removes>>

\* ----------------------------------------------------------- AddListener
\* Lines 63-72 and the two go statements: the owner's call, made between
\* its other calls.  bound is the outcome of net.Listen on listenPort; a
\* failed bind returns false and changes nothing.
AddListener(listenPort, endpointId, bound) ==
    /\ Alive
    /\ stop.pc = "idle"
    /\ Len(listeners) < MaxListeners
    /\ MoreEvents
    /\ IF ~bound
       THEN UNCHANGED <<listeners, acceptLoop, dispatchLoop>>
       ELSE /\ listeners' = Append(listeners, [closes |-> 0])
            /\ acceptLoop' = Append(acceptLoop, [pc |-> "accept", c |-> Nil])
            /\ dispatchLoop' = Append(dispatchLoop,
                   [pc |-> "select", endpointId |-> endpointId,
                    gConn |-> Nil, count |-> 0])
    /\ UNCHANGED <<id, connections, connectionCount, Kill, conns,
                   recvLoop, ingressLoop, ingressMessages, stop, sent,
                   handlerCalls, removed, recvd, removes, panic>>

\* Line 76, err == nil: a client connected.  The object made here stands for
\* the socket and for the Connection NewConnection wraps around it (line 88).
Accept(l) ==
    /\ Alive
    /\ acceptLoop[l].pc = "accept"
    /\ listeners[l].closes = 0
    /\ Cardinality(Accepted) < MaxAccepts
    /\ MoreEvents
    /\ conns' = Append(conns, NewConnection("accept", l))
    /\ acceptLoop' = [acceptLoop EXCEPT ![l] = [pc |-> "send", c |-> Len(conns) + 1]]
    /\ UNCHANGED <<id, connections, connectionCount, listeners, Kill,
                   dispatchLoop, recvLoop, ingressLoop, ingressMessages, stop,
                   sent, handlerCalls, removed, recvd, removes, panic>>

\* Lines 76-80, err != nil: the listener is closed, the accept loop returns.
AcceptError(l) ==
    /\ Alive
    /\ acceptLoop[l].pc = "accept"
    /\ listeners[l].closes > 0
    /\ acceptLoop' = [acceptLoop EXCEPT ![l].pc = "done"]
    /\ UNCHANGED <<id, connections, connectionCount, listeners, Kill,
                   conns, dispatchLoop, recvLoop, ingressLoop, ingressMessages,
                   stop, sent, handlerCalls, removed, recvd, removes,
                   panic>>

\* Lines 78 and 87-88: newConns is unbuffered, so the send of the accept loop
\* and the receive of the dispatch loop are one step.
DispatchRecv(l) ==
    /\ Alive
    /\ acceptLoop[l].pc = "send"
    /\ dispatchLoop[l].pc = "select"
    /\ acceptLoop' = [acceptLoop EXCEPT ![l] = [pc |-> "accept", c |-> Nil]]
    /\ dispatchLoop' = [dispatchLoop EXCEPT ![l].pc = "setId",
                                            ![l].gConn = acceptLoop[l].c]
    /\ UNCHANGED <<id, connections, connectionCount, listeners, Kill,
                   conns, recvLoop, ingressLoop, ingressMessages, stop, sent,
                   handlerCalls, removed, recvd, removes, panic>>

\* Lines 97-98.
DispatchKill(l) ==
    /\ Alive
    /\ dispatchLoop[l].pc = "select"
    /\ Kill = "closed"
    /\ dispatchLoop' = [dispatchLoop EXCEPT ![l].pc = "done"]
    /\ UNCHANGED <<id, connections, connectionCount, listeners, Kill,
                   conns, acceptLoop, recvLoop, ingressLoop, ingressMessages,
                   stop, sent, handlerCalls, removed, recvd, removes,
                   panic>>

\* --------------------------------------------------------- AddConnection
\* Line 56: c.Id = t.connectionCount
AddConnectionSetId(l) ==
    /\ Alive
    /\ dispatchLoop[l].pc = "setId"
    /\ conns' = [conns EXCEPT ![dispatchLoop[l].gConn].Id = connectionCount]
    /\ dispatchLoop' = [dispatchLoop EXCEPT ![l].pc = "store"]
    /\ UNCHANGED <<id, connections, connectionCount, listeners, Kill,
                   acceptLoop, recvLoop, ingressLoop, ingressMessages, stop,
                   sent, handlerCalls, removed, recvd, removes, panic>>

\* Line 57: t.connections[t.connectionCount] = c
AddConnectionStore(l) ==
    /\ Alive
    /\ dispatchLoop[l].pc = "store"
    /\ connections' = MapStore(connections, connectionCount, dispatchLoop[l].gConn)
    /\ removed' = removed \ {connectionCount}
    /\ dispatchLoop' = [dispatchLoop EXCEPT ![l].pc = "load"]
    /\ UNCHANGED <<id, connectionCount, listeners, Kill, conns,
                   acceptLoop, recvLoop, ingressLoop, ingressMessages, stop,
                   sent, handlerCalls, recvd, removes, panic>>

\* Line 58, t.connectionCount += 1: the load ...
AddConnectionLoad(l) ==
    /\ Alive
    /\ dispatchLoop[l].pc = "load"
    /\ dispatchLoop' = [dispatchLoop EXCEPT ![l].pc = "inc",
                                            ![l].count = connectionCount]
    /\ UNCHANGED <<id, connections, connectionCount, listeners, Kill,
                   conns, acceptLoop, recvLoop, ingressLoop, ingressMessages,
                   stop, sent, handlerCalls, removed, recvd, removes,
                   panic>>

\* ... and the store of the sum (int32).
AddConnectionInc(l) ==
    /\ Alive
    /\ dispatchLoop[l].pc = "inc"
    /\ connectionCount' = IF dispatchLoop[l].count = 2147483647
                          THEN -2147483647 - 1 ELSE dispatchLoop[l].count + 1
    /\ dispatchLoop' = [dispatchLoop EXCEPT ![l].pc = "send", ![l].count = 0]
    /\ UNCHANGED <<id, connections, listeners, Kill, conns,
                   acceptLoop, recvLoop, ingressLoop, ingressMessages, stop,
                   sent, handlerCalls, removed, recvd, removes, panic>>

\* Mutant of ConnectMessage: TunnelId and EndpointId swapped.
ConnectMessageSwapped(endpointId, tid, connId) ==
    ControlMessage(TunnelCtrlConnect, endpointId, connId, tid, 0)

\* Lines 90-94.
ConnectMessage(endpointId, tid, connId) ==
    ControlMessage(TunnelCtrlConnect, tid, connId, endpointId, 0)

\* Line 95: t.ctrlStream.Send(newMessage).  The entry of sent also names
\* the Connection the message was built for.
SendConnect(l) ==
    /\ Alive
    /\ dispatchLoop[l].pc = "send"
    /\ sent' = Append(sent,
           [msg |-> ConnectMessage(dispatchLoop[l].endpointId, id,
                                   conns[dispatchLoop[l].gConn].Id),
            conn |-> dispatchLoop[l].gConn])
    /\ dispatchLoop' = [dispatchLoop EXCEPT ![l].pc = "select", ![l].gConn = Nil]
    /\ UNCHANGED <<id, connections, connectionCount, listeners, Kill,
                   conns, acceptLoop, recvLoop, ingressLoop, ingressMessages,
                   stop, handlerCalls, removed, recvd, removes, panic>>

\* -------------------------------------------------------------- Start
\* Lines 236-240 and 153-154: the ingress loop and its receiving goroutine.
\* The model runs one ingress loop per Tunnel.
Start ==
    /\ Alive
    /\ ingressLoop.pc = "off"
    /\ ingressMessages' = "open"
    /\ recvLoop' = "recv"
    /\ ingressLoop' = [ingressLoop EXCEPT !.pc = "select"]
    /\ UNCHANGED <<id, connections, connectionCount, listeners, Kill,
                   conns, acceptLoop, dispatchLoop, stop, sent, handlerCalls,
                   removed, recvd, removes, panic>>

\* Lines 157-160, err != nil: close(ingressMessages) and return.  The main
\* loop shares the variable and may have set it to nil (lines 168, 172).
RecvError ==
    /\ Alive
    /\ recvLoop = "recv"
    /\ IF ingressMessages = "nil"
       THEN Panic("close of nil channel")
       ELSE /\ ingressMessages' = "closed"
            /\ recvLoop' = "done"
            /\ UNCHANGED <<id, connections, connectionCount,
                           listeners, Kill, conns, acceptLoop, dispatchLoop,
                           ingressLoop, stop, sent, handlerCalls, removed, recvd, removes, panic>>

\* Lines 156, 161 and 166-174: the peer delivers m, and the receiving
\* goroutine hands it to the loop over the unbuffered channel (one step: the
\* goroutine does nothing else with m).  A nil message sets ingressMessages
\* to nil, which ends the loop at line 217.
IngressRecv(m) ==
    /\ Alive
    /\ recvLoop = "recv"
    /\ recvd < MaxMsgs
    /\ MoreEvents
    /\ ingressLoop.pc = "select"
    /\ ingressMessages = "open"
    /\ recvd' = recvd + 1
    /\ IF m = NilMessage
       THEN /\ ingressMessages' = "nil"
            /\ ingressLoop' = [ingressLoop EXCEPT !.pc = "done"]
       ELSE /\ ingressLoop' = [ingressLoop EXCEPT !.pc = "handle", !.msg = m]
            /\ UNCHANGED ingressMessages
    /\ UNCHANGED <<id, connections, connectionCount, listeners, Kill,
                   conns, acceptLoop, dispatchLoop, recvLoop, stop, sent,
                   handlerCalls, removed, removes, panic>>

\* Lines 166-170 and 217-218: the channel is closed, the loop ends.
IngressClosed ==
    /\ Alive
    /\ ingressLoop.pc = "select"
    /\ ingressMessages = "closed"
    /\ ingressMessages' = "nil"
    /\ ingressLoop' = [ingressLoop EXCEPT !.pc = "done"]
    /\ UNCHANGED <<id, connections, connectionCount, listeners, Kill,
                   conns, acceptLoop, dispatchLoop, recvLoop, stop, sent,
                   handlerCalls, removed, recvd, removes, panic>>

\* Lines 214-215: Kill is closed; the break leaves the select statement.
IngressKill ==
    /\ Alive
    /\ ingressLoop.pc = "select"
    /\ Kill = "closed"
    /\ ingressLoop' = [ingressLoop EXCEPT !.pc = "killed"]
    /\ UNCHANGED <<id, connections, connectionCount, listeners, Kill,
                   conns, acceptLoop, dispatchLoop, recvLoop, ingressMessages,
                   stop, sent, handlerCalls, removed, recvd, removes,
                   panic>>

\* Lines 217-219 after the Kill case: ingressMessages is not nil (only this
\* loop sets it to nil, and then ends), so the for loop goes round again.
IngressAfterKill ==
    /\ Alive
    /\ ingressLoop.pc = "killed"
    /\ ingressLoop' = [ingressLoop EXCEPT
                         !.pc = IF ingressMessages = "nil" THEN "done" ELSE "select"]
    /\ UNCHANGED <<id, connections, connectionCount, listeners, Kill,
                   conns, acceptLoop, dispatchLoop, recvLoop, ingressMessages,
                   stop, sent, handlerCalls, removed, recvd, removes,
                   panic>>

\* The ingress loop is back at its select statement.
IngressNext == [pc |-> "select", msg |-> NilMessage, gConn |-> Nil]

\* Lines 176-189: dial the destination, then look the id up.  A failed dial
\* sets ErrorStatus on the received message, which is then dropped.
HandleConnect(dialOk) ==
    /\ Alive
    /\ ingressLoop.pc = "handle"
    /\ ingressLoop.msg.Operation = TunnelCtrlConnect
    /\ IF ~dialOk
       THEN /\ ingressLoop' = IngressNext
            /\ UNCHANGED conns
       ELSE IF ingressLoop.msg.ConnectionId \in DOMAIN connections
       THEN /\ ingressLoop' = [ingressLoop EXCEPT !.pc = "attach",
                                 !.gConn = connections[ingressLoop.msg.ConnectionId]]
            /\ UNCHANGED conns
       ELSE /\ conns' = Append(conns, NewConnection("dial", 0))
            /\ ingressLoop' = [ingressLoop EXCEPT !.pc = "insert",
                                                  !.gConn = Len(conns) + 1]
    /\ UNCHANGED <<id, connections, connectionCount, listeners, Kill,
                   acceptLoop, dispatchLoop, recvLoop, ingressMessages, stop,
                   sent, handlerCalls, removed, recvd, removes, panic>>

\* Line 188: t.connections[ctrlMessage.ConnectionId] = gConn
HandleConnectInsert ==
    /\ Alive
    /\ ingressLoop.pc = "insert"
    /\ connections' = MapStore(connections, ingressLoop.msg.ConnectionId,
                               ingressLoop.gConn)
    /\ removed' = removed \ {ingressLoop.msg.ConnectionId}
    /\ ingressLoop' = [ingressLoop EXCEPT !.pc = "attach"]
    /\ UNCHANGED <<id, connectionCount, listeners, Kill, conns,
                   acceptLoop, dispatchLoop, recvLoop, ingressMessages, stop,
                   sent, handlerCalls, recvd, removes, panic>>

\* Mutant of HandleConnectAttach: gConn.Start() is left out.
HandleConnectAttachNoStart ==
    /\ Alive
    /\ ingressLoop.pc = "attach"
    /\ handlerCalls' = handlerCalls \cup
                         {<<"GetByteStream", ingressLoop.msg.ConnectionId>>}
    /\ conns' = [conns EXCEPT ![ingressLoop.gConn] = SetStream(@, "GetByteStream")]
    /\ ingressLoop' = IngressNext
    /\ UNCHANGED <<id, connections, connectionCount, listeners, Kill,
                   acceptLoop, dispatchLoop, recvLoop, ingressMessages, stop,
                   sent, removed, recvd, removes, panic>>

\* Lines 190-192: GetByteStream, SetStream, Start.
HandleConnectAttach ==
    /\ Alive
    /\ ingressLoop.pc = "attach"
    /\ handlerCalls' = handlerCalls \cup
                         {<<"GetByteStream", ingressLoop.msg.ConnectionId>>}
    /\ conns' = [conns EXCEPT ![ingressLoop.gConn] =
                    StartConnection(SetStream(@, "GetByteStream"))]
    /\ ingressLoop' = IngressNext
    /\ UNCHANGED <<id, connections, connectionCount, listeners, Kill,
                   acceptLoop, dispatchLoop, recvLoop, ingressMessages, stop,
                   sent, removed, recvd, removes, panic>>

\* Mutant of HandleAck: ErrorStatus is not looked at.
HandleAckIgnoresError ==
    /\ Alive
    /\ ingressLoop.pc = "handle"
    /\ ingressLoop.msg.Operation = TunnelCtrlAck
    /\ LET connId == ingressLoop.msg.ConnectionId
           conn == GetConnection(connections, connId)
       IN  IF conn = Nil
           THEN /\ handlerCalls' = handlerCalls \cup {<<"Acknowledge", connId>>}
                /\ panic' = "nil Connection"
                /\ UNCHANGED <<connections, removed, ingressLoop, conns>>
           ELSE /\ handlerCalls' = handlerCalls \cup {<<"Acknowledge", connId>>}
                /\ conns' = [conns EXCEPT ![conn] =
                                StartConnection(SetStream(@, "Acknowledge"))]
                /\ ingressLoop' = IngressNext
                /\ UNCHANGED <<connections, removed, panic>>
    /\ UNCHANGED <<id, connectionCount, listeners, Kill, acceptLoop,
                   dispatchLoop, recvLoop, ingressMessages, stop, sent,
                   recvd, removes>>

\* Lines 196-210.  With no entry for the id, conn is nil: Acknowledge is
\* called, and SetStream then writes through the nil pointer.
HandleAck ==
    /\ Alive
    /\ ingressLoop.pc = "handle"
    /\ ingressLoop.msg.Operation = TunnelCtrlAck
    /\ LET connId == ingressLoop.msg.ConnectionId
           conn == GetConnection(connections, connId)
       IN  IF ingressLoop.msg.ErrorStatus # 0
           THEN /\ connections' = RemoveConnection(connections, connId)
                /\ removed' = removed \cup {connId}
                /\ ingressLoop' = IngressNext
                /\ UNCHANGED <<conns, handlerCalls, panic>>
           ELSE IF conn = Nil
           THEN /\ handlerCalls' = handlerCalls \cup {<<"Acknowledge", connId>>}
                /\ panic' = "nil Connection"
                /\ UNCHANGED <<connections, removed, ingressLoop, conns>>
           ELSE /\ handlerCalls' = handlerCalls \cup {<<"Acknowledge", connId>>}
                /\ conns' = [conns EXCEPT ![conn] =
                                StartConnection(SetStream(@, "Acknowledge"))]
                /\ ingressLoop' = IngressNext
                /\ UNCHANGED <<connections, removed, panic>>
    /\ UNCHANGED <<id, connectionCount, listeners, Kill, acceptLoop,
                   dispatchLoop, recvLoop, ingressMessages, stop, sent,
                   recvd, removes>>

\* Mutant of HandleDisconnect: the whole table is dropped.
HandleDisconnectClearsTable ==
    /\ Alive
    /\ ingressLoop.pc = "handle"
    /\ ingressLoop.msg.Operation = TunnelCtrlDisconnect
    /\ connections' = EmptyTable
    /\ removed' = removed \cup DOMAIN connections
    /\ ingressLoop' = IngressNext
    /\ UNCHANGED <<id, connectionCount, listeners, Kill, conns,
                   acceptLoop, dispatchLoop, recvLoop, ingressMessages, stop,
                   sent, handlerCalls, recvd, removes, panic>>

\* Lines 211-213.
HandleDisconnect ==
    /\ Alive
    /\ ingressLoop.pc = "handle"
    /\ ingressLoop.msg.Operation = TunnelCtrlDisconnect
    /\ connections' = RemoveConnection(connections, ingressLoop.msg.ConnectionId)
    /\ removed' = removed \cup {ingressLoop.msg.ConnectionId}
    /\ ingressLoop' = IngressNext
    /\ UNCHANGED <<id, connectionCount, listeners, Kill, conns,
                   acceptLoop, dispatchLoop, recvLoop, ingressMessages, stop,
                   sent, handlerCalls, recvd, removes, panic>>

\* Mutant of HandleOther: an unknown operation is taken for Disconnect.
HandleOtherDisconnects ==
    /\ Alive
    /\ ingressLoop.pc = "handle"
    /\ ingressLoop.msg.Operation \notin
           {TunnelCtrlConnect, TunnelCtrlAck, TunnelCtrlDisconnect}
    /\ connections' = RemoveConnection(connections, ingressLoop.msg.ConnectionId)
    /\ removed' = removed \cup {ingressLoop.msg.ConnectionId}
    /\ ingressLoop' = IngressNext
    /\ UNCHANGED <<id, connectionCount, listeners, Kill, conns,
                   acceptLoop, dispatchLoop, recvLoop, ingressMessages, stop,
                   sent, handlerCalls, recvd, removes, panic>>

\* Lines 176-213 with an operation that matches no branch.
HandleOther ==
    /\ Alive
    /\ ingressLoop.pc = "handle"
    /\ ingressLoop.msg.Operation \notin
           {TunnelCtrlConnect, TunnelCtrlAck, TunnelCtrlDisconnect}
    /\ ingressLoop' = IngressNext
    /\ UNCHANGED <<id, connections, connectionCount, listeners, Kill,
                   conns, acceptLoop, dispatchLoop, recvLoop, ingressMessages,
                   stop, sent, handlerCalls, removed, recvd, removes,
                   panic>>

\* ----------------------------------------------- RemoveConnection (owner)
\* Lines 225-227, called by the owner of the Tunnel.
RemoveConnectionCall(connID) ==
    /\ Alive
    /\ removes < MaxRemoves
    /\ MoreEvents
    /\ removes' = removes + 1
    /\ connections' = RemoveConnection(connections, connID)
    /\ removed' = removed \cup {connID}
    /\ UNCHANGED <<id, connectionCount, listeners, Kill, conns,
                   acceptLoop, dispatchLoop, recvLoop, ingressLoop,
                   ingressMessages, stop, sent, handlerCalls, recvd,
                   panic>>

\* ------------------------------------------------------------------ Stop
\* Lines 246-248: every listener is closed.
StopListeners ==
    /\ Alive
    /\ stop.pc = "idle"
    /\ stop.calls < MaxStops
    /\ MoreEvents
    /\ listeners' = [l \in DOMAIN listeners |->
                        [listeners[l] EXCEPT !.closes = @ + 1]]
    /\ stop' = [pc |-> "conns", calls |-> stop.calls + 1]
    /\ UNCHANGED <<id, connections, connectionCount, Kill, conns, acceptLoop,
                   dispatchLoop, recvLoop, ingressLoop, ingressMessages, sent,
                   handlerCalls, removed, recvd, removes, panic>>

\* The values of the table: the Connections it tracks.
Tracked(table) == {table[k] : k \in DOMAIN table}

\* Mutant of StopConnections: the range closes no Connection.
StopConnectionsNone ==
    /\ Alive
    /\ stop.pc = "conns"
    /\ stop' = [stop EXCEPT !.pc = "kill"]
    /\ UNCHANGED <<id, connections, connectionCount, listeners, Kill, conns,
                   acceptLoop, dispatchLoop, recvLoop, ingressLoop,
                   ingressMessages, sent, handlerCalls, removed, recvd, removes,
                   panic>>

\* Lines 251-253: conn.Close() for every entry of the map, as it is when the
\* range runs.
StopConnections ==
    /\ Alive
    /\ stop.pc = "conns"
    /\ conns' = [i \in DOMAIN conns |->
                    IF i \in Tracked(connections)
                    THEN CloseConnection(conns[i]) ELSE conns[i]]
    /\ stop' = [stop EXCEPT !.pc = "kill"]
    /\ UNCHANGED <<id, connections, connectionCount, listeners, Kill, acceptLoop,
                   dispatchLoop, recvLoop, ingressLoop, ingressMessages, sent,
                   handlerCalls, removed, recvd, removes, panic>>

\* Line 255: close(t.Kill), which panics on a closed channel.
StopKill ==
    /\ Alive
    /\ stop.pc = "kill"
    /\ IF Kill = "closed"
       THEN Panic("close of closed channel")
       ELSE /\ Kill' = "closed"
            /\ stop' = [stop EXCEPT !.pc = "idle"]
            /\ UNCHANGED <<id, connections, connectionCount, listeners, conns,
                           acceptLoop, dispatchLoop, recvLoop, ingressLoop,
                           ingressMessages, sent, handlerCalls, removed, recvd,
                           removes, panic>>

\* ------------------------------------------- unsynchronized map accesses
\* The goroutines whose next statement writes / reads t.connections.
MapWriters ==
    { <<"dispatch", l>> : l \in {k \in DOMAIN dispatchLoop : dispatchLoop[k].pc = "store"} }
    \cup (IF \/ ingressLoop.pc = "insert"
             \/ /\ ingressLoop.pc = "handle"
                /\ \/ ingressLoop.msg.Operation = TunnelCtrlDisconnect
                   \/ /\ ingressLoop.msg.Operation = TunnelCtrlAck
                      /\ ingressLoop.msg.ErrorStatus # 0
          THEN {<<"ingress", 0>>} ELSE {})

MapReaders ==
    (IF /\ ingressLoop.pc = "handle"
        /\ \/ ingressLoop.msg.Operation = TunnelCtrlConnect
           \/ /\ ingressLoop.msg.Operation = TunnelCtrlAck
              /\ ingressLoop.msg.ErrorStatus = 0
     THEN {<<"ingress", 0>>} ELSE {})
    \cup (IF stop.pc = "conns" THEN {<<"stop", 0>>} ELSE {})

\* Two goroutines in the map at once, one of them writing: the Go runtime
\* may detect it and end the process ("fatal error: concurrent map writes").
ConcurrentMapFault ==
    /\ Alive
    /\ \E w \in MapWriters : (MapWriters \cup MapReaders) \ {w} # {}
    /\ Panic("concurrent map access")

\* ------------------------------------------------------------------ Next
Next ==
    \/ \E p \in Ports, e \in EndpointIds, bound \in BOOLEAN : AddListener(p, e, bound)
    \/ \E l \in DOMAIN listeners : Accept(l)
    \/ \E l \in DOMAIN listeners : AcceptError(l)
    \/ \E l \in DOMAIN listeners : DispatchRecv(l)
    \/ \E l \in DOMAIN listeners : DispatchKill(l)
    \/ \E l \in DOMAIN listeners : AddConnectionSetId(l)
    \/ \E l \in DOMAIN listeners : AddConnectionStore(l)
    \/ \E l \in DOMAIN listeners : AddConnectionLoad(l)
    \/ \E l \in DOMAIN listeners : AddConnectionInc(l)
    \/ \E l \in DOMAIN listeners : SendConnect(l)
    \/ Start
    \/ RecvError
    \/ \E m \in PeerMessages : IngressRecv(m)
    \/ IngressClosed
    \/ IngressKill
    \/ IngressAfterKill
    \/ \E dialOk \in BOOLEAN : HandleConnect(dialOk)
    \/ HandleConnectInsert
    \/ HandleConnectAttach
    \/ HandleAck
    \/ HandleDisconnect
    \/ HandleOther
    \/ \E c \in PeerConnIds : RemoveConnectionCall(c)
    \/ StopListeners
    \/ StopConnections
    \/ StopKill
    \/ ConcurrentMapFault

Spec == Init /\ [][Next]_vars


\* ---------------------------------------------------------------- claims
\* The accepted Connections AddConnection has written an id to (line 56):
\* those no longer held by an accept loop or by a dispatch loop about to
\* execute line 56.
Assigned ==
    { i \in Accepted :
        \A l \in DOMAIN listeners :
            /\ acceptLoop[l].c # i
            /\ ~(dispatchLoop[l].pc = "setId" /\ dispatchLoop[l].gConn = i) }

\* No dispatch loop is inside AddConnection.
NoAddConnectionRunning ==
    \A l \in DOMAIN listeners : dispatchLoop[l].pc \notin {"setId", "store", "load", "inc"}

\* C1: the ids AddConnection assigns are pairwise distinct (as strictly
\* increasing ids are), also across listeners whose dispatch loops run
\* concurrently, and connectionCount is the number of ids handed out
\* whenever no AddConnection call is under way.
C1_UniqueIncreasingIds ==
    /\ \A i, j \in Assigned : i # j => conns[i].Id # conns[j].Id
    /\ NoAddConnectionRunning => connectionCount = Cardinality(Assigned)

\* C2: when a dispatch loop sends the Connect message of an accepted
\* connection, the table maps the message's ConnectionId to that
\* connection (registration precedes Send) unless RemoveConnection has
\* deleted that id meanwhile, and the message is the only Connect message
\* sent for it.
C2_RegisteredBeforeConnectSent ==
    [][\A l \in DOMAIN listeners :
          SendConnect(l) =>
              LET g == dispatchLoop[l].gConn
                  m == sent'[Len(sent')].msg
              IN  /\ m.Operation = TunnelCtrlConnect
                  /\ \/ GetConnection(connections, m.ConnectionId) = g
                     \/ m.ConnectionId \in removed
                  /\ Cardinality({i \in DOMAIN sent' : sent'[i].conn = g}) = 1]_vars


\* A Connection nothing has been attached to, and one that has had one
\* stream attached, made by method s of the handler, and one Start.
Fresh(c) == c.stream = "none" /\ c.setStreams = 0 /\ c.starts = 0

StartedOnce(c, s) == c.stream = s /\ c.setStreams = 1 /\ c.starts = 1

\* The ingress loop finishes handling a message of operation op.
Handled(op) ==
    /\ ingressLoop.pc \in {"handle", "attach"}
    /\ ingressLoop.msg.Operation = op
    /\ ingressLoop'.pc = "select"

\* C3: the two ends of Connect followed by a successful Ack.  Responder: when
\* the handling of Connect (dial succeeded) ends for an id whose table entry
\* is a Connection nothing was attached to yet, that entry is still the one
\* for the id, has the stream of GetByteStream attached and is started once.
\* Initiator: when Ack with ErrorStatus 0 is handled for an id whose entry
\* is such a Connection, the entry stays, has the stream of Acknowledge
\* attached and is started once.
C3_ConnectAckStartsBothEnds ==
    [][LET connId == ingressLoop.msg.ConnectionId
           conn == GetConnection(connections, connId)
       IN  /\ ( /\ Handled(TunnelCtrlConnect)
                /\ ingressLoop.pc = "attach"
                /\ conn = ingressLoop.gConn
                /\ Fresh(conns[conn]) )
              => /\ GetConnection(connections', connId) = conn
                 /\ StartedOnce(conns'[conn], "GetByteStream")
           /\ ( /\ Handled(TunnelCtrlAck)
                /\ ingressLoop.msg.ErrorStatus = 0
                /\ conn # Nil
                /\ Fresh(conns[conn]) )
              => /\ GetConnection(connections', connId) = conn
                 /\ StartedOnce(conns'[conn], "Acknowledge")]_vars

\* C3 witness: the table holds an accepted Connection started once on an
\* Ack and a dialed Connection started once on a Connect.
C3_Witness ==
    \E i, j \in Tracked(connections) :
        /\ conns[i].origin = "accept" /\ StartedOnce(conns[i], "Acknowledge")
        /\ conns[j].origin = "dial" /\ StartedOnce(conns[j], "GetByteStream")
        /\ ingressLoop.pc = "select"

\* C4: when the handling of a Connect message ends without a Connection
\* having been attached (the dial failed), a message with a nonzero
\* ErrorStatus for that connection id has been sent to the peer, and the
\* table has no entry for the id.
C4_DialFailureReported ==
    [][( /\ Handled(TunnelCtrlConnect)
         /\ ingressLoop.pc = "handle" )
       => /\ \E i \in DOMAIN sent' :
                /\ sent'[i].msg.ConnectionId = ingressLoop.msg.ConnectionId
                /\ sent'[i].msg.ErrorStatus # 0
          /\ ingressLoop.msg.ConnectionId \notin DOMAIN connections']_vars

\* C5: one call of Stop() closes every listener once (lines 246-248), then
\* every Connection in the table once and no other (lines 251-253), and
\* Kill is closed only after both loops, by line 255.
C5_StopClosesAllThenKills ==
    [][/\ (stop.pc = "idle" /\ stop'.pc = "conns")
          => /\ DOMAIN listeners' = DOMAIN listeners
             /\ \A l \in DOMAIN listeners :
                    listeners'[l].closes = listeners[l].closes + 1
             /\ Kill' = Kill
       /\ (stop.pc = "conns" /\ stop'.pc # "conns")
          => /\ stop'.pc = "kill"
             /\ \A i \in DOMAIN conns :
                    conns'[i].closes = conns[i].closes +
                        (IF i \in Tracked(connections) THEN 1 ELSE 0)
             /\ Kill' = Kill
       /\ (Kill' # Kill)
          => /\ stop.pc = "kill"
             /\ Kill' = "closed"
             /\ \A l \in DOMAIN listeners : listeners[l].closes >= 1]_vars

\* C5 witness: the first Stop() has returned, having closed a listener and
\* a Connection of the table once each.
C5_Witness ==
    /\ stop = [pc |-> "idle", calls |-> 1]
    /\ Kill = "closed"
    /\ \E l \in DOMAIN listeners : listeners[l].closes = 1
    /\ \E i \in Tracked(connections) : conns[i].closes = 1

\* C6: Stop() never crashes the process, however often it is called.
C6_StopIdempotent == panic # "close of closed channel"

\* C7: an id RemoveConnection has deleted is not found by GetConnection, as
\* long as nothing has been stored under it since.
C7_RemovedIsNotFound ==
    \A connID \in removed : GetConnection(connections, connID) = Nil

\* C7 witness: the id of a registered Connection was removed, and the table
\* still holds another entry.
C7_Witness ==
    \E i \in Assigned :
        /\ conns[i].Id \in removed
        /\ i \notin Tracked(connections)
        /\ connections # EmptyTable
        /\ \A l \in DOMAIN listeners : dispatchLoop[l].gConn # i


\* The Connection accepted before every other one.
FirstAccepted == CHOOSE i \in Accepted : \A j \in Accepted : i <= j

\* Every Connect message sent carries Operation Connect, the Tunnel's id,
\* the endpointId given to AddListener for the listener that accepted the
\* connection, and the id AddConnection wrote to the Connection.
ConnectFieldsOk ==
    \A k \in DOMAIN sent :
        LET m == sent[k].msg
            c == conns[sent[k].conn]
        IN  /\ m.Operation = TunnelCtrlConnect
            /\ m.TunnelId = id
            /\ m.EndpointId = dispatchLoop[c.listener].endpointId
            /\ m.ConnectionId = c.Id

\* C8 as stated: the first connection accepted on a fresh Tunnel gets id 0,
\* and every Connect message carries the Tunnel's id, the listener's
\* endpointId and Operation Connect.
C8_FirstAcceptedGetsZero ==
    /\ (Accepted # {} /\ FirstAccepted \in Assigned) => conns[FirstAccepted].Id = 0
    /\ ConnectFieldsOk

\* C8 as amended: the first connection AddConnection registers on a fresh
\* Tunnel gets id 0 (with several listeners it need not be the first one
\* accepted), and every Connect message carries the Tunnel's id, the
\* listener's endpointId and Operation Connect.
C8_FirstRegisteredGetsZero ==
    [][/\ \A l \in DOMAIN listeners :
              ( /\ dispatchLoop[l].pc = "setId"
                /\ dispatchLoop'[l].pc # "setId"
                /\ Assigned = {} )
              => conns'[dispatchLoop[l].gConn].Id = 0
       /\ ConnectFieldsOk']_vars

\* C8 witness: two listeners with different endpoint ids have each sent the
\* Connect message of a connection, the first registered with id 0.
C8_Witness ==
    /\ Len(sent) = 2
    /\ sent[1].msg.ConnectionId = 0
    /\ sent[1].msg.EndpointId # sent[2].msg.EndpointId
    /\ sent[1].msg.TunnelId = id

\* C9: whenever an entry leaves the table, and for every entry of the table
\* when Stop() closes the Connections, CloseStream has been called on the
\* handler for the entry's id.
C9_CloseStreamOnRemoval ==
    [][/\ \A k \in DOMAIN connections :
              k \notin DOMAIN connections' => <<"CloseStream", k>> \in handlerCalls'
       /\ (stop.pc = "conns" /\ stop'.pc = "kill")
          => \A k \in DOMAIN connections : <<"CloseStream", k>> \in handlerCalls']_vars

\* ------------------------------------------------------------ liveness
\* The steps of the ingress loop (lines 164-220).
IngressStep ==
    \/ IngressClosed
    \/ IngressKill
    \/ IngressAfterKill
    \/ \E dialOk \in BOOLEAN : HandleConnect(dialOk)
    \/ HandleConnectInsert
    \/ HandleConnectAttach
    \/ HandleAck
    \/ HandleDisconnect
    \/ HandleOther

\* The scheduler runs the ingress loop whenever it can take a step, and a
\* select statement chooses among its ready cases at random: a case that is
\* ready again and again (the closed channel) is chosen in the end.
FairSpec == Spec /\ WF_vars(IngressStep) /\ SF_vars(IngressClosed)

\* C10: once Start() has launched the ingress loop, a receive failure on
\* the control stream, and likewise the shutdown signal, leads to the end
\* of the loop (unless the process dies first).
C10_IngressLoopTerminates ==
    /\ (ingressMessages = "closed") ~> (ingressLoop.pc = "done" \/ ~Alive)
    /\ (ingressLoop.pc \notin {"off", "done"} /\ Kill = "closed")
           ~> (ingressLoop.pc = "done" \/ ~Alive)

\* The steps of the two goroutines of listener l (lines 74-101).
ListenerStep(l) ==
    /\ l \in DOMAIN listeners
    /\ \/ AcceptError(l)
       \/ DispatchRecv(l)
       \/ DispatchKill(l)
       \/ AddConnectionSetId(l)
       \/ AddConnectionStore(l)
       \/ AddConnectionLoad(l)
       \/ AddConnectionInc(l)
       \/ SendConnect(l)

\* The scheduler runs the goroutines of every listener whenever they can
\* take a step, Send returns, and the select statement of a dispatch loop,
\* choosing at random, takes the Kill case in the end once Kill is closed.
ListenerFairSpec ==
    /\ Spec
    /\ \A l \in 1..MaxListeners : WF_vars(ListenerStep(l))
    /\ \A l \in 1..MaxListeners : SF_vars(l \in DOMAIN listeners /\ DispatchKill(l))

\* C11: once Stop() has closed a listener and Kill, the accept loop and the
\* dispatch loop of that listener both end (unless the process dies first).
C11_ListenerLoopsTerminate ==
    \A l \in 1..MaxListeners :
        (l \in DOMAIN listeners /\ listeners[l].closes > 0 /\ Kill = "closed")
            ~> \/ ~Alive
               \/ /\ l \in DOMAIN listeners
                  /\ acceptLoop[l].pc = "done"
                  /\ dispatchLoop[l].pc = "done"

\* C12: the accept loop never waits on the control stream: while the
\* dispatch loop of its listener is inside ctrlStream.Send, an accept loop
\* holding a newly accepted socket can hand it over on newConns.
C12_AcceptNeverWaitsOnSend ==
    \A l \in DOMAIN listeners :
        (Alive /\ acceptLoop[l].pc = "send" /\ dispatchLoop[l].pc = "send")
            => ENABLED DispatchRecv(l)

\* C13: accesses to the connection table are serialized: no goroutine is
\* about to write t.connections while another goroutine is about to read
\* or write it.
C13_TableAccessSerialized ==
    Alive => \A w \in MapWriters : (MapWriters \cup MapReaders) \ {w} = {}

\* The ids a table entry can stand under.
TableIds == PeerConnIds \cup DOMAIN connections \cup DOMAIN connections'

\* C14: handling an Ack with ErrorStatus # 0 deletes the entry of its id,
\* calls no handler method, attaches no stream to and starts no Connection,
\* and leaves every other entry of the table as it was.
C14_FailedAckRemovesOnly ==
    [][ (Handled(TunnelCtrlAck) /\ ingressLoop.msg.ErrorStatus # 0) =>
            LET connId == ingressLoop.msg.ConnectionId
            IN  /\ GetConnection(connections', connId) = Nil
                /\ \A k \in TableIds \ {connId} :
                       GetConnection(connections', k) = GetConnection(connections, k)
                /\ handlerCalls' = handlerCalls
                /\ conns' = conns ]_vars

\* C14 witness: the ingress loop is about to handle a failed Ack whose id
\* stands in the table next to another entry.
C14_Witness ==
    /\ Alive
    /\ ingressLoop.pc = "handle"
    /\ ingressLoop.msg.Operation = TunnelCtrlAck
    /\ ingressLoop.msg.ErrorStatus # 0
    /\ GetConnection(connections, ingressLoop.msg.ConnectionId) # Nil
    /\ DOMAIN connections \ {ingressLoop.msg.ConnectionId} # {}

\* The ingress loop takes a step on the message of operation op it holds.
Handles(op) ==
    /\ ingressLoop.pc = "handle"
    /\ ingressLoop.msg.Operation = op
    /\ ingressLoop' # ingressLoop

\* C15: handling Disconnect deletes the entry of its id and leaves every
\* other entry and connectionCount as they were; for an id with no entry the
\* table is unchanged; in both cases the loop goes on to its next select.
C15_DisconnectRemovesOnlyThatId ==
    [][ Handles(TunnelCtrlDisconnect) =>
            LET connId == ingressLoop.msg.ConnectionId
            IN  /\ GetConnection(connections', connId) = Nil
                /\ \A k \in TableIds \ {connId} :
                       GetConnection(connections', k) = GetConnection(connections, k)
                /\ connId \notin DOMAIN connections => connections' = connections
                /\ connectionCount' = connectionCount
                /\ ingressLoop'.pc = "select"
                /\ panic' = "none" ]_vars

\* C15 witness: the ingress loop is about to handle a Disconnect whose id
\* stands in the table next to another entry.
C15_Witness ==
    /\ Alive
    /\ ingressLoop.pc = "handle"
    /\ ingressLoop.msg.Operation = TunnelCtrlDisconnect
    /\ GetConnection(connections, ingressLoop.msg.ConnectionId) # Nil
    /\ DOMAIN connections \ {ingressLoop.msg.ConnectionId} # {}

\* C16: handling a message whose operation is none of Connect, Ack and
\* Disconnect changes neither the table, the counter, a Connection, the
\* messages sent nor the handler calls, and the loop goes on to its next
\* select.
C16_UnknownOperationIsNoOp ==
    [][ Handles(TunnelCtrlOther) =>
            /\ connections' = connections
            /\ connectionCount' = connectionCount
            /\ conns' = conns
            /\ sent' = sent
            /\ handlerCalls' = handlerCalls
            /\ ingressLoop'.pc = "select"
            /\ panic' = "none" ]_vars

\* C16 witness: the ingress loop is about to handle a message of an unknown
\* operation whose ConnectionId stands in the table.
C16_Witness ==
    /\ Alive
    /\ ingressLoop.pc = "handle"
    /\ ingressLoop.msg.Operation = TunnelCtrlOther
    /\ GetConnection(connections, ingressLoop.msg.ConnectionId) # Nil

\* C17: handling a successful Ack whose id has no entry in the table calls
\* no handler method, touches no Connection, does not crash, and the loop
\* goes on to its next select.
C17_AckForAbsentIdIsSkipped ==
    [][ ( /\ ingressLoop.pc = "handle"
          /\ ingressLoop.msg.Operation = TunnelCtrlAck
          /\ ingressLoop.msg.ErrorStatus = 0
          /\ GetConnection(connections, ingressLoop.msg.ConnectionId) = Nil
          /\ \/ ingressLoop' # ingressLoop
             \/ handlerCalls' # handlerCalls ) =>
            /\ handlerCalls' = handlerCalls
            /\ conns' = conns
            /\ panic' = "none"
            /\ ingressLoop'.pc = "select" ]_vars

\* C18: an entry of the table is never replaced by another Connection while
\* it stands in the table, and the Connect handler never takes a Connection
\* made for a locally accepted socket as the Connection of a peer's id.
C18_LiveEntryNeverOverwritten ==
    [][ /\ \A k \in DOMAIN connections \cap DOMAIN connections' :
               connections'[k] = connections[k]
        /\ ( /\ ingressLoop.pc = "handle"
             /\ ingressLoop.msg.Operation = TunnelCtrlConnect
             /\ ingressLoop'.pc = "attach" ) =>
               conns[ingressLoop'.gConn].origin # "accept" ]_vars

\* Stop() has run to its end at least once and is not running now.
StopReturned == Kill = "closed" /\ stop.pc = "idle"

\* C19: once Stop() has returned, the dispatch loop of a listener it closed
\* neither stores a Connection in the table nor sends a Connect message, and
\* every Connection of such a listener that stands in the table is closed.
C19_NothingRegisteredAfterStop ==
    [][ StopReturned =>
            \A l \in DOMAIN listeners :
                listeners[l].closes > 0 =>
                    /\ ~(dispatchLoop[l].pc = "store" /\ dispatchLoop'[l].pc = "load")
                    /\ ~(dispatchLoop[l].pc = "send" /\ dispatchLoop'[l].pc = "select")
                    /\ \A i \in Tracked(connections) :
                           (conns[i].origin = "accept" /\ conns[i].listener = l)
                               => conns[i].closes > 0 ]_vars

\* C20: a Connection is never started without a stream, and a Connection
\* accepted here and announced to the peer by a Connect message gets a
\* stream from a handler method only when it has none yet and is not
\* started (a repeated delivery of the same kind of message is left aside).
C20_AttachedAndStartedOnce ==
    [][ \A i \in DOMAIN conns :
            /\ conns'[i].starts > 0 => conns'[i].setStreams > 0
            /\ ( /\ conns[i].origin = "accept"
                 /\ \E k \in DOMAIN sent : sent[k].conn = i
                 /\ conns'[i].setStreams > conns[i].setStreams
                 /\ conns'[i].stream # conns[i].stream ) =>
                   /\ conns[i].setStreams = 0
                   /\ conns[i].starts = 0 ]_vars

=============================================================================
